---------------------------- MODULE Spec2Model ----------------------------
(***************************************************************************)
(* A model of the scatter/gather coordinator of seveas/scattergather       *)
(* (scattergather.go), its error aggregate ScatteredError and the          *)
(* resizable weighted semaphore it gates task execution with               *)
(* (x/sync/semaphore).                                                     *)
(*                                                                         *)
(* One caller goroutine constructs the coordinator (New, or the zero       *)
(* value), calls KeepAllResults, SetParallel and Run, may cancel the       *)
(* context it passes to Run, and finally calls Wait.  Every Run spawns one *)
(* execution unit; the first Run spawns the single gatherer goroutine.     *)
(* Every step of a goroutine that touches shared state is one action.      *)
(***************************************************************************)
EXTENDS Naturals, Integers, Sequences, FiniteSets, Bags, TLC

\* ----------------------------------------------------------------- bounds
\* Number of tasks the caller may submit.
MaxTasks == 3
\* Largest limit the caller passes to New / SetParallel.
MaxParallel == 2
\* What runtime.GOMAXPROCS(0) answers on the modelled host.
GoMaxProcs == 2
\* Capacity of resultChan.  The code makes it with capacity 10
\* (scattergather.go:55); the model scales it down so that MaxTasks units can
\* fill it.
ChanCap == 2
\* Longest error sequence of an aggregate handed to ScatteredError.Is.
MaxErrs == 2
\* Most AddError calls made on one aggregate.
MaxAdds == 3

Units == 1..MaxTasks

\* ----------------------------------------------------------------- values
\* The error interface's nil.
Nil == "nil"
\* ctx.Err() of a cancelled context.
Canceled == "context canceled"
\* The error a failing task returns.
TaskErr == "task error"
\* The zero value of T, which a scatterResult{err: err} carries.
ZeroVal == 0

VARIABLES
    sg,          \* the ScatterGather struct
    pc,          \* pc[u]: where execution unit u is in Run's goroutine
    ctxDone,     \* the context passed to Run has been cancelled
    waitPc,      \* where the caller is in Wait
    ret,         \* what Wait returned
    fault,       \* the panic that ended the program, or "none"
    posted,      \* history: every scatterResult sent, in the order of the sends
    isE, isT, isRes  \* receiver, target and answer of a call of a method of
                     \* ScatteredError (Is, HasErrors, AddError)

vars == <<sg, pc, ctxDone, waitPc, ret, fault, posted,
          isE, isT, isRes>>

isVars == <<isE, isT, isRes>>

\* ------------------------------------------------------------- semaphore
\* semaphore.NewWeighted(n): size n, nothing checked out, no waiters.
\* waiters is the FIFO queue of the units blocked in Acquire.
NewWeighted(n) == [size |-> n, cur |-> 0, waiters |-> <<>>]

\* The semaphore pointer of a coordinator that was never initialised.
NilSemaphore == [size |-> 0, cur |-> 0, waiters |-> <<>>]

\* notifyWaiters: hand permits to the waiters at the head of the FIFO queue
\* for as long as the next one (each asks for one permit) fits.  A waiter
\* taken off the queue has its ready channel closed: its Acquire returns nil.
RECURSIVE notifyWaiters(_)
notifyWaiters(s) ==
    IF s.waiters = <<>> \/ s.size - s.cur < 1
    THEN s
    ELSE notifyWaiters([s EXCEPT !.cur = @ + 1, !.waiters = Tail(@)])

\* Weighted.SetSize without the wake-up of the waiters.
SetSizeNoNotify(s, newSize) == [s EXCEPT !.size = newSize]

\* Weighted.SetSize that wakes every waiter, whatever the new size.
SetSizeWakeAll(s, newSize) ==
    [s EXCEPT !.size = newSize, !.cur = @ + Len(s.waiters), !.waiters = <<>>]

\* Weighted.SetSize that serves the waiter at the head whatever the new size.
SetSizeWakeHead(s, newSize) ==
    IF s.waiters = <<>>
    THEN [s EXCEPT !.size = newSize]
    ELSE [s EXCEPT !.size = newSize, !.cur = @ + 1, !.waiters = Tail(@)]

\* Weighted.SetSize: s.size = newSize; s.notifyWaiters(), under s.mu.
SetSize(s, newSize) == notifyWaiters([s EXCEPT !.size = newSize])

\* Weighted.Release(1): s.cur -= 1; s.notifyWaiters(), under s.mu.
Release(s) == notifyWaiters([s EXCEPT !.cur = @ - 1])

\* Acquire's fast path: a permit is free and nobody queues.
CanAcquireNow(s) == s.size - s.cur >= 1 /\ s.waiters = <<>>

\* The queue without waiter u.
RemoveWaiter(w, u) == SelectSeq(w, LAMBDA x : x # u)

\* Acquire giving up on a cancelled context: the waiter leaves the queue, and
\* if it was at the front and permits are free, the ones behind it are served.
CancelWaiter(s, u) ==
    LET isFront == s.waiters # <<>> /\ Head(s.waiters) = u
        t == [s EXCEPT !.waiters = RemoveWaiter(@, u)]
    IN IF isFront /\ t.size > t.cur THEN notifyWaiters(t) ELSE t

\* -------------------------------------------------------- ScatteredError
\* A *ScatteredError: nilPtr for the nil pointer, nilSlice for a nil Errors
\* slice (as in &ScatteredError{}), Errors for the slice's elements.
NilAggregate == [nilPtr |-> TRUE, nilSlice |-> TRUE, Errors |-> <<>>]
EmptyAggregate == [nilPtr |-> FALSE, nilSlice |-> TRUE, Errors |-> <<>>]

\* ScatteredError.HasErrors that only looks whether the slice is there.
HasErrorsSliceOnly(e) == ~e.nilPtr /\ ~e.nilSlice

\* ScatteredError.HasErrors: e != nil && e.Errors != nil && len(e.Errors) > 0.
HasErrors(e) == ~e.nilPtr /\ ~e.nilSlice /\ Len(e.Errors) > 0

\* ScatteredError.AddError: a fresh one-element slice on a nil slice, append otherwise.
AddError(e, err) ==
    IF e.nilSlice
    THEN [e EXCEPT !.nilSlice = FALSE, !.Errors = <<err>>]
    ELSE [e EXCEPT !.Errors = Append(@, err)]

\* The errors an aggregate may hold: the cancellation error, a task error,
\* two instances of the tests' cantEven, and an error that wraps the
\* cancellation error.
CantEven1 == "cantEven#1"
CantEven2 == "cantEven#2"
WrappedCanceled == "wrapped: context canceled"
ErrUniverse == {Canceled, TaskErr, CantEven1, CantEven2, WrappedCanceled}

\* cantEven.Is: the target is a *cantEven.
IsCantEven(e) == e \in {CantEven1, CantEven2}

\* errors.Unwrap: what err wraps, or nil.
Unwrap(err) == IF err = WrappedCanceled THEN Canceled ELSE Nil

\* errors.Is(err, target): err, or an error it wraps, equals target or says
\* through its own Is method that it matches target.
RECURSIVE ErrorsIs(_, _)
ErrorsIs(err, target) ==
    \/ err = target
    \/ IsCantEven(err) /\ IsCantEven(target)
    \/ Unwrap(err) # Nil /\ ErrorsIs(Unwrap(err), target)

\* The loop of ScatteredError.Is from index i on: for i, err := range t.Errors.
RECURSIVE IsLoop(_, _, _)
IsLoop(eErrors, tErrors, i) ==
    IF i > Len(tErrors)
    THEN TRUE
    ELSE IF ~ErrorsIs(tErrors[i], eErrors[i])
         THEN FALSE
         ELSE IsLoop(eErrors, tErrors, i + 1)

\* ScatteredError.Is that compares the common prefix, whatever the lengths.
ScatteredErrorIsNoLength(e, target) ==
    /\ target.agg
    /\ \A i \in 1..Len(target.ptr.Errors) :
          i <= Len(e.Errors) => ErrorsIs(target.ptr.Errors[i], e.Errors[i])

\* ScatteredError.Is(target).  A target is an aggregate (agg, ptr) or another
\* error (err), for which the type assertion fails.
ScatteredErrorIs(e, target) ==
    IF ~target.agg \/ Len(e.Errors) # Len(target.ptr.Errors)
    THEN FALSE
    ELSE IsLoop(e.Errors, target.ptr.Errors, 1)

\* ------------------------------------------------------------ coordinator
\* The zero value of ScatterGather[T]: every pointer, slice and channel nil.
\* gatherers counts the gatherer goroutines started so far.
ZeroSG ==
    [initOnce |-> FALSE, gatherOnce |-> FALSE, gatherers |-> 0,
     waitGroup |-> 0, results |-> <<>>, keepAllResults |-> FALSE,
     errors |-> NilAggregate, resultChan |-> <<>>, chanClosed |-> FALSE,
     doneChan |-> FALSE, semaphore |-> NilSemaphore]

\* init without the initOnce guard: every call makes everything anew.
initAlways(s, parallel) ==
    [s EXCEPT !.initOnce = TRUE,
              !.waitGroup = 0,
              !.results = <<>>,
              !.errors = [nilPtr |-> FALSE, nilSlice |-> FALSE, Errors |-> <<>>],
              !.resultChan = <<>>,
              !.chanClosed = FALSE,
              !.doneChan = FALSE,
              !.semaphore = NewWeighted(IF parallel = 0 THEN GoMaxProcs ELSE parallel)]

\* init: the body runs once (initOnce); parallel = 0 means GOMAXPROCS.
init(s, parallel) ==
    IF s.initOnce
    THEN s
    ELSE [s EXCEPT !.initOnce = TRUE,
                   !.waitGroup = 0,
                   !.results = <<>>,
                   !.errors = [nilPtr |-> FALSE, nilSlice |-> FALSE, Errors |-> <<>>],
                   !.resultChan = <<>>,
                   !.chanClosed = FALSE,
                   !.doneChan = FALSE,
                   !.semaphore = NewWeighted(IF parallel = 0 THEN GoMaxProcs ELSE parallel)]

\* New(parallel): a zero value, initialised.
New(parallel) == init(ZeroSG, parallel)

\* gather without the gatherOnce guard: every call starts a gatherer.
gatherEveryTime(s) == [s EXCEPT !.gatherOnce = TRUE, !.gatherers = @ + 1]

\* gather: start the gatherer goroutine, once (gatherOnce).
gather(s) ==
    IF s.gatherOnce
    THEN s
    ELSE [s EXCEPT !.gatherOnce = TRUE, !.gatherers = @ + 1]

\* gatherer's loop body with the error test dropped: every value is kept.
gathererFoldKeepAlways(s, res) ==
    [s EXCEPT !.errors = IF res.err # Nil THEN AddError(@, res.err) ELSE @,
              !.results = Append(@, res.val)]

\* gatherer's loop body that never keeps the value of a failed outcome.
gathererFoldDropFailed(s, res) ==
    [s EXCEPT !.errors = IF res.err # Nil THEN AddError(@, res.err) ELSE @,
              !.results = IF res.err = Nil THEN Append(@, res.val) ELSE @]

\* gatherer's loop body that puts a new error at the front of the aggregate.
gathererFoldPrepend(s, res) ==
    [s EXCEPT !.errors = IF res.err # Nil
                         THEN [@ EXCEPT !.nilSlice = FALSE, !.Errors = <<res.err>> \o @]
                         ELSE @,
              !.results = IF res.err = Nil \/ s.keepAllResults
                          THEN Append(@, res.val) ELSE @]

\* gatherer's loop body: fold one received scatterResult into errors and results.
gathererFold(s, res) ==
    [s EXCEPT !.errors = IF res.err # Nil THEN AddError(@, res.err) ELSE @,
              !.results = IF res.err = Nil \/ s.keepAllResults
                          THEN Append(@, res.val) ELSE @]

\* What Wait hands back before it has returned.
NoReturn == [results |-> <<>>, errNil |-> TRUE, errors |-> <<>>]

\* Wait's return statement that always hands back the aggregate.
waitResultAlwaysAggregate(s) ==
    [results |-> s.results, errNil |-> FALSE, errors |-> s.errors.Errors]

\* Wait's return statement: (results, nil) without errors, (results, errors) with.
waitResult(s) ==
    IF ~HasErrors(s.errors)
    THEN [results |-> s.results, errNil |-> TRUE, errors |-> <<>>]
    ELSE [results |-> s.results, errNil |-> FALSE, errors |-> s.errors.Errors]

Alive == fault = "none"

\* Unit u is in the semaphore's queue.
Queued(u) == \E i \in 1..Len(sg.semaphore.waiters) : sg.semaphore.waiters[i] = u

\* Unit u is inside callable(): its Acquire returned nil, at once or after
\* notifyWaiters took it off the queue, and callable() has not returned.
Running(u) == pc[u] = "running" \/ (pc[u] = "waiting" /\ ~Queued(u))

\* The units inside their task body.
InBody == {u \in Units : Running(u)}

\* The units that hold a permit of the semaphore.
Holding == {u \in Units : Running(u) \/ pc[u] \in {"post", "release"}}

Submitted == {u \in Units : pc[u] # "idle"}

\* ---------------------------------------------------------------- caller
\* KeepAllResults(keep), called before the first submission.
KeepAllResults(keep) ==
    /\ Alive /\ waitPc = "idle" /\ Submitted = {}
    /\ sg.keepAllResults # keep
    /\ sg' = [sg EXCEPT !.keepAllResults = keep]
    /\ UNCHANGED <<pc, ctxDone, waitPc, ret, fault, posted>>
    /\ UNCHANGED isVars

\* SetParallel(parallel): sg.semaphore.SetSize(parallel); on a coordinator
\* that was never initialised the semaphore pointer is nil.
SetParallel(parallel) ==
    /\ Alive /\ waitPc = "idle"
    /\ IF sg.initOnce
       THEN /\ sg' = [sg EXCEPT !.semaphore = SetSize(@, parallel)]
            /\ UNCHANGED fault
       ELSE /\ fault' = "SetParallel: nil pointer dereference"
            /\ UNCHANGED sg
    /\ UNCHANGED <<pc, ctxDone, waitPc, ret, posted>>
    /\ UNCHANGED isVars

\* The caller cancels the context it passes to every Run.  A cancellation
\* while Wait blocks acts on the units as one just before Wait was called.
Cancel ==
    /\ Alive /\ ~ctxDone /\ waitPc = "idle"
    /\ ctxDone' = TRUE
    /\ UNCHANGED <<sg, pc, waitPc, ret, fault, posted>>
    /\ UNCHANGED isVars

\* Run(ctx, callable): init(0), gather(), waitGroup.Add(1), go func(){...}.
\* Units are submitted in the order of their numbers, before Wait is called.
Run(u) ==
    /\ Alive /\ waitPc = "idle"
    /\ pc[u] = "idle" /\ \A v \in Units : v < u => pc[v] # "idle"
    /\ sg' = [gather(init(sg, 0)) EXCEPT !.waitGroup = @ + 1]
    /\ pc' = [pc EXCEPT ![u] = "acquire"]
    /\ UNCHANGED <<ctxDone, waitPc, ret, fault, posted>>
    /\ UNCHANGED isVars

\* The positions of a caller inside Run, when Run is followed step by step.
RunSteps == {"run:gather", "run:add", "run:go"}

\* Run followed step by step, for callers that call Run from goroutines of
\* their own: caller u is in sg.init(0); initOnce.Do lets one caller at a time
\* through and returns to each only when the body has run.
RunInit(u) ==
    /\ Alive /\ waitPc = "idle"
    /\ pc[u] = "idle"
    /\ sg' = init(sg, 0)
    /\ pc' = [pc EXCEPT ![u] = "run:gather"]
    /\ UNCHANGED <<ctxDone, waitPc, ret, fault, posted>>
    /\ UNCHANGED isVars

\* Caller u is in sg.gather(): gatherOnce.Do.
RunGather(u) ==
    /\ Alive /\ pc[u] = "run:gather"
    /\ sg' = gather(sg)
    /\ pc' = [pc EXCEPT ![u] = "run:add"]
    /\ UNCHANGED <<ctxDone, waitPc, ret, fault, posted>>
    /\ UNCHANGED isVars

\* Caller u is in sg.waitGroup.Add(1).
RunAdd(u) ==
    /\ Alive /\ pc[u] = "run:add"
    /\ sg' = [sg EXCEPT !.waitGroup = @ + 1]
    /\ pc' = [pc EXCEPT ![u] = "run:go"]
    /\ UNCHANGED <<ctxDone, waitPc, ret, fault, posted>>
    /\ UNCHANGED isVars

\* Caller u starts the unit's goroutine and Run returns.
RunGo(u) ==
    /\ Alive /\ pc[u] = "run:go"
    /\ pc' = [pc EXCEPT ![u] = "acquire"]
    /\ UNCHANGED <<sg, ctxDone, waitPc, ret, fault, posted>>
    /\ UNCHANGED isVars

\* Wait is called, after every Run call has returned: sg.waitGroup.Wait()
\* starts to block; the waitGroup of a coordinator that was never initialised
\* is a nil pointer.
WaitCall ==
    /\ Alive /\ waitPc = "idle"
    /\ \A u \in Units : pc[u] \notin RunSteps
    /\ IF sg.initOnce
       THEN waitPc' = "wgwait" /\ UNCHANGED fault
       ELSE fault' = "Wait: nil pointer dereference" /\ UNCHANGED waitPc
    /\ UNCHANGED <<sg, pc, ctxDone, ret, posted>>
    /\ UNCHANGED isVars

\* Wait that closes the channel without waiting for the counter.
WaitJoinedEarly ==
    /\ Alive /\ waitPc = "wgwait"
    /\ sg' = [sg EXCEPT !.chanClosed = TRUE]
    /\ waitPc' = "recvdone"
    /\ UNCHANGED <<pc, ctxDone, ret, fault, posted>>
    /\ UNCHANGED isVars

\* Wait: waitGroup.Wait() returns at counter zero, then close(sg.resultChan).
WaitJoined ==
    /\ Alive /\ waitPc = "wgwait"
    /\ sg.waitGroup = 0
    /\ sg' = [sg EXCEPT !.chanClosed = TRUE]
    /\ waitPc' = "recvdone"
    /\ UNCHANGED <<pc, ctxDone, ret, fault, posted>>
    /\ UNCHANGED isVars

\* Wait: <-sg.doneChan returns once the channel is closed, then the return.
WaitReturn ==
    /\ Alive /\ waitPc = "recvdone"
    /\ sg.doneChan
    /\ ret' = waitResult(sg)
    /\ waitPc' = "returned"
    /\ UNCHANGED <<sg, pc, ctxDone, fault, posted>>
    /\ UNCHANGED isVars

\* -------------------------------------------------------- execution unit
\* The unit's goroutine, with the permit test of Acquire's fast path left out.
AcquireFastUnguarded(u) ==
    /\ Alive /\ pc[u] = "acquire"
    /\ sg' = [sg EXCEPT !.semaphore.cur = @ + 1]
    /\ pc' = [pc EXCEPT ![u] = "running"]
    /\ UNCHANGED <<ctxDone, waitPc, ret, fault, posted>>
    /\ UNCHANGED isVars

\* sg.semaphore.Acquire(ctx, 1) returns nil at once: a permit is free and no
\* one queues.  The unit goes on to callable().
AcquireFast(u) ==
    /\ Alive /\ pc[u] = "acquire"
    /\ CanAcquireNow(sg.semaphore)
    /\ sg' = [sg EXCEPT !.semaphore.cur = @ + 1]
    /\ pc' = [pc EXCEPT ![u] = "running"]
    /\ UNCHANGED <<ctxDone, waitPc, ret, fault, posted>>
    /\ UNCHANGED isVars

\* sg.semaphore.Acquire(ctx, 1) has to wait: the unit joins the FIFO queue.
AcquireEnqueue(u) ==
    /\ Alive /\ pc[u] = "acquire"
    /\ ~CanAcquireNow(sg.semaphore)
    /\ sg' = [sg EXCEPT !.semaphore.waiters = Append(@, u)]
    /\ pc' = [pc EXCEPT ![u] = "waiting"]
    /\ UNCHANGED <<ctxDone, waitPc, ret, fault, posted>>
    /\ UNCHANGED isVars

\* sg.semaphore.Acquire(ctx, 1) returns ctx.Err() without queueing: the
\* context is cancelled.  The unit will send scatterResult{err: err}.
AcquireCanceled(u) ==
    /\ Alive /\ pc[u] = "acquire"
    /\ ctxDone
    /\ pc' = [pc EXCEPT ![u] = "failed"]
    /\ UNCHANGED <<sg, ctxDone, waitPc, ret, fault, posted>>
    /\ UNCHANGED isVars

\* A queued Acquire that was not served sees the context cancelled, leaves
\* the queue and returns ctx.Err().
WaiterCanceled(u) ==
    /\ Alive /\ pc[u] = "waiting"
    /\ Queued(u)
    /\ ctxDone
    /\ sg' = [sg EXCEPT !.semaphore = CancelWaiter(@, u)]
    /\ pc' = [pc EXCEPT ![u] = "failed"]
    /\ UNCHANGED <<ctxDone, waitPc, ret, fault, posted>>
    /\ UNCHANGED isVars

\* ret, err := callable() returns.  What it returned is drawn when the unit
\* sends it: nothing reads the two locals in between.
TaskReturn(u) ==
    /\ Alive /\ Running(u)
    /\ pc' = [pc EXCEPT ![u] = "post"]
    /\ UNCHANGED <<sg, ctxDone, waitPc, ret, fault, posted>>
    /\ UNCHANGED isVars

\* What a task may return: a value and no error, or another value and an
\* error.  The code never looks into a value; the two differ from each other
\* and from the zero value so that the results tell where each came from.
TaskOutcomes == {[val |-> 1, err |-> Nil], [val |-> 2, err |-> TaskErr]}

\* sg.resultChan <- scatterResult{val: ret, err: err}: blocks while the
\* channel is full, panics on a closed channel.  The deferred Release has not
\* run yet.
PostResult(u) ==
    /\ Alive /\ pc[u] = "post"
    /\ IF sg.chanClosed
       THEN /\ fault' = "send on closed channel"
            /\ UNCHANGED <<sg, pc, posted>>
       ELSE /\ Len(sg.resultChan) < ChanCap
            /\ \E res \in TaskOutcomes :
                  /\ sg' = [sg EXCEPT !.resultChan = Append(@, res)]
                  /\ posted' = Append(posted, res)
            /\ pc' = [pc EXCEPT ![u] = "release"]
            /\ UNCHANGED fault
    /\ UNCHANGED <<ctxDone, waitPc, ret>>
    /\ UNCHANGED isVars

\* The unit's goroutine without the deferred Release.
ReleasePermitSkipped(u) ==
    /\ Alive /\ pc[u] = "release"
    /\ pc' = [pc EXCEPT ![u] = "wgdone"]
    /\ UNCHANGED <<sg, ctxDone, waitPc, ret, fault, posted>>
    /\ UNCHANGED isVars

\* The deferred sg.semaphore.Release(1).
ReleasePermit(u) ==
    /\ Alive /\ pc[u] = "release"
    /\ sg' = [sg EXCEPT !.semaphore = Release(@)]
    /\ pc' = [pc EXCEPT ![u] = "wgdone"]
    /\ UNCHANGED <<ctxDone, waitPc, ret, fault, posted>>
    /\ UNCHANGED isVars

\* The unit's goroutine with the Release deferred before Acquire: the failed
\* unit gives back a permit it never took.
PostFailureThenRelease(u) ==
    /\ Alive /\ pc[u] = "failed"
    /\ ~sg.chanClosed /\ Len(sg.resultChan) < ChanCap
    /\ sg' = [sg EXCEPT !.resultChan = Append(@, [val |-> ZeroVal, err |-> Canceled]),
                        !.semaphore = Release(@)]
    /\ posted' = Append(posted, [val |-> ZeroVal, err |-> Canceled])
    /\ pc' = [pc EXCEPT ![u] = "wgdone"]
    /\ UNCHANGED <<ctxDone, waitPc, ret, fault>>
    /\ UNCHANGED isVars

\* sg.resultChan <- scatterResult{err: err} after a failed Acquire; return.
\* The send blocks while the channel is full, panics on a closed channel.
PostFailure(u) ==
    /\ Alive /\ pc[u] = "failed"
    /\ IF sg.chanClosed
       THEN /\ fault' = "send on closed channel"
            /\ UNCHANGED <<sg, pc, posted>>
       ELSE /\ Len(sg.resultChan) < ChanCap
            /\ sg' = [sg EXCEPT !.resultChan = Append(@, [val |-> ZeroVal, err |-> Canceled])]
            /\ posted' = Append(posted, [val |-> ZeroVal, err |-> Canceled])
            /\ pc' = [pc EXCEPT ![u] = "wgdone"]
            /\ UNCHANGED fault
    /\ UNCHANGED <<ctxDone, waitPc, ret>>
    /\ UNCHANGED isVars

\* The deferred sg.waitGroup.Done(): the goroutine ends.
WaitGroupDone(u) ==
    /\ Alive /\ pc[u] = "wgdone"
    /\ sg' = [sg EXCEPT !.waitGroup = @ - 1]
    /\ pc' = [pc EXCEPT ![u] = "done"]
    /\ UNCHANGED <<ctxDone, waitPc, ret, fault, posted>>
    /\ UNCHANGED isVars

\* -------------------------------------------------------------- gatherer
\* for res := range sg.resultChan: receive the oldest outcome and fold it.
GathererReceive ==
    /\ Alive /\ sg.gatherers > 0 /\ ~sg.doneChan
    /\ sg.resultChan # <<>>
    /\ sg' = [gathererFold(sg, Head(sg.resultChan)) EXCEPT !.resultChan = Tail(sg.resultChan)]
    /\ UNCHANGED <<pc, ctxDone, waitPc, ret, fault, posted>>
    /\ UNCHANGED isVars

\* The range loop ends on the closed, drained channel: close(sg.doneChan).
GathererExit ==
    /\ Alive /\ sg.gatherers > 0 /\ ~sg.doneChan
    /\ sg.resultChan = <<>> /\ sg.chanClosed
    /\ sg' = [sg EXCEPT !.doneChan = TRUE]
    /\ UNCHANGED <<pc, ctxDone, waitPc, ret, fault, posted>>
    /\ UNCHANGED isVars

\* ------------------------------------------------------- specification
\* The coordinator after construction, the zero value or New(parallel), with
\* the context the caller will pass to Run cancelled already or not.
InitWith(canceled) ==
    /\ sg \in {ZeroSG} \cup {New(p) : p \in 0..MaxParallel}
    /\ isE = EmptyAggregate
    /\ isT = [agg |-> TRUE, ptr |-> EmptyAggregate, err |-> Nil]
    /\ isRes = "none"
    /\ pc = [u \in Units |-> "idle"]
    /\ ctxDone = canceled
    /\ waitPc = "idle"
    /\ ret = NoReturn
    /\ fault = "none"
    /\ posted = <<>>

Init == InitWith(FALSE)

\* The steps of the caller, the units and the gatherer other than a resize
\* and a cancellation.
Core ==
    \/ \E keep \in BOOLEAN : KeepAllResults(keep)
    \/ \E u \in Units : Run(u)
    \/ WaitCall
    \/ WaitJoined
    \/ WaitReturn
    \/ \E u \in Units : AcquireFast(u)
    \/ \E u \in Units : AcquireEnqueue(u)
    \/ \E u \in Units : AcquireCanceled(u)
    \/ \E u \in Units : WaiterCanceled(u)
    \/ \E u \in Units : TaskReturn(u)
    \/ \E u \in Units : PostResult(u)
    \/ \E u \in Units : ReleasePermit(u)
    \/ \E u \in Units : PostFailure(u)
    \/ \E u \in Units : WaitGroupDone(u)
    \/ GathererReceive
    \/ GathererExit

Resize == \E p \in 1..MaxParallel : SetParallel(p)

Next == Core \/ Resize \/ Cancel

Spec == Init /\ [][Next]_vars

\* The program of a caller that never calls SetParallel: the limit stays the
\* one of the construction.
NextFixed == Core \/ Cancel

SpecFixed == Init /\ [][NextFixed]_vars

\* The program of a caller whose context is cancelled before the first Run
\* (as in TestCanceledContext).
InitCanceled == InitWith(TRUE)

NextCanceled == Core \/ Resize

SpecCanceled == InitCanceled /\ [][NextCanceled]_vars

\* The program under a fair scheduler: a goroutine that can take a step does
\* not wait forever.  The caller is free to stop calling Run, SetParallel,
\* KeepAllResults, cancel and Wait; once inside Wait it goes on.
UnitStep(u) ==
    \/ AcquireFast(u) \/ AcquireEnqueue(u) \/ AcquireCanceled(u) \/ WaiterCanceled(u)
    \/ TaskReturn(u) \/ PostResult(u) \/ ReleasePermit(u) \/ PostFailure(u)
    \/ WaitGroupDone(u)

GathererStep == GathererReceive \/ GathererExit

WaitStep == WaitJoined \/ WaitReturn

Fairness ==
    /\ \A u \in Units : WF_vars(UnitStep(u))
    /\ WF_vars(GathererStep)
    /\ WF_vars(WaitStep)

SpecLive == Init /\ [][Next]_vars /\ Fairness

\* The program of callers that call Run from goroutines of their own, none
\* of which cancels, resizes or toggles keepAllResults; Wait is called when
\* the Run calls have returned.
NextConcurrent ==
    \/ \E u \in Units : RunInit(u)
    \/ \E u \in Units : RunGather(u)
    \/ \E u \in Units : RunAdd(u)
    \/ \E u \in Units : RunGo(u)
    \/ WaitCall
    \/ WaitJoined
    \/ WaitReturn
    \/ \E u \in Units : AcquireFast(u)
    \/ \E u \in Units : AcquireEnqueue(u)
    \/ \E u \in Units : TaskReturn(u)
    \/ \E u \in Units : PostResult(u)
    \/ \E u \in Units : ReleasePermit(u)
    \/ \E u \in Units : WaitGroupDone(u)
    \/ GathererReceive
    \/ GathererExit

SpecConcurrent == Init /\ [][NextConcurrent]_vars

\* ------------------------------------------------- ScatteredError.Is
\* The sequences over S of length at most n.
SeqsUpTo(S, n) == UNION {[1..k -> S] : k \in 0..n}

\* The aggregates a caller can build with AddError, and the empty one.
Aggregates ==
    {[nilPtr |-> FALSE, nilSlice |-> q = <<>>, Errors |-> q] : q \in SeqsUpTo(ErrUniverse, MaxErrs)}

\* The errors a caller can hand to Is: an aggregate or another error.
Targets ==
    {[agg |-> TRUE, ptr |-> a, err |-> Nil] : a \in Aggregates}
        \cup {[agg |-> FALSE, ptr |-> EmptyAggregate, err |-> x] : x \in ErrUniverse}

\* A receiver and a target, and an untouched coordinator beside them.
InitIs ==
    /\ sg = ZeroSG
    /\ pc = [u \in Units |-> "idle"]
    /\ ctxDone = FALSE
    /\ waitPc = "idle"
    /\ ret = NoReturn
    /\ fault = "none"
    /\ posted = <<>>
    /\ isE \in Aggregates
    /\ isT \in Targets
    /\ isRes = "none"

\* e.Is(target) is called and answers.
CallIs ==
    /\ isRes = "none"
    /\ isRes' = IF ScatteredErrorIs(isE, isT) THEN "true" ELSE "false"
    /\ UNCHANGED <<sg, pc, ctxDone, waitPc, ret, fault, posted, isE, isT>>

NextIs == CallIs

SpecIs == InitIs /\ [][NextIs]_vars

\* ------------------------------- ScatteredError.HasErrors / AddError
\* The aggregate as init makes it: a non-nil, empty Errors slice.
MadeAggregate == [nilPtr |-> FALSE, nilSlice |-> FALSE, Errors |-> <<>>]

\* An aggregate before any AddError: the nil pointer, &ScatteredError{}, or
\* the one init makes; an untouched coordinator beside it.
InitAgg ==
    /\ sg = ZeroSG
    /\ pc = [u \in Units |-> "idle"]
    /\ ctxDone = FALSE
    /\ waitPc = "idle"
    /\ ret = NoReturn
    /\ fault = "none"
    /\ posted = <<>>
    /\ isE \in {NilAggregate, EmptyAggregate, MadeAggregate}
    /\ isT = [agg |-> TRUE, ptr |-> EmptyAggregate, err |-> Nil]
    /\ isRes = "none"

\* e.AddError(err) is called; on the nil pointer, e.Errors dereferences nil.
CallAddError(err) ==
    /\ Alive /\ Len(isE.Errors) < MaxAdds
    /\ IF isE.nilPtr
       THEN /\ fault' = "AddError: nil pointer dereference"
            /\ UNCHANGED <<isE, isRes>>
       ELSE /\ isE' = AddError(isE, err)
            /\ isRes' = "none"
            /\ UNCHANGED fault
    /\ UNCHANGED <<sg, pc, ctxDone, waitPc, ret, posted, isT>>

\* e.HasErrors() is called and answers.
CallHasErrors ==
    /\ Alive /\ isRes = "none"
    /\ isRes' = IF HasErrors(isE) THEN "true" ELSE "false"
    /\ UNCHANGED <<sg, pc, ctxDone, waitPc, ret, fault, posted, isE, isT>>

NextAgg ==
    \/ \E err \in ErrUniverse : CallAddError(err)
    \/ CallHasErrors

SpecAgg == InitAgg /\ [][NextAgg]_vars

\* ------------------------------------------------------------- claims
\* The errors of the outcomes of seq that carry one, in seq's order.
ErrsOf(seq) ==
    LET f == SelectSeq(seq, LAMBDA r : r.err # Nil)
    IN [i \in 1..Len(f) |-> f[i].err]

\* The values of the outcomes of seq without error, or of all with keep.
ValsOf(seq, keep) ==
    LET f == SelectSeq(seq, LAMBDA r : r.err = Nil \/ keep)
    IN [i \in 1..Len(f) |-> f[i].val]

\* The elements of a sequence as a multiset.
SeqToBag(seq) ==
    LET range == {seq[i] : i \in 1..Len(seq)}
    IN [x \in range |-> Cardinality({i \in 1..Len(seq) : seq[i] = x})]

\* Number of tasks submitted, and of outcomes sent with an error.
NSubmitted == Cardinality(Submitted)
NFailed == Len(ErrsOf(posted))

Returned == waitPc = "returned"

\* C1: when Wait has returned, every submitted unit has finished and sent
\* exactly one outcome, the channel is drained, and the collector folded each
\* outcome once: one error entry per outcome with an error, one result entry
\* per outcome without, and a result entry as well for an outcome with an
\* error when keepAllResults is set.
C1_EveryOutcomeFoldedOnce ==
    Returned =>
        /\ \A u \in Submitted : pc[u] = "done"
        /\ Len(posted) = NSubmitted
        /\ sg.resultChan = <<>>
        /\ Len(sg.errors.Errors) = NFailed
        /\ Len(sg.results) =
              (Len(posted) - NFailed) + (IF sg.keepAllResults THEN NFailed ELSE 0)
        /\ Len(sg.results) + Len(sg.errors.Errors) =
              NSubmitted + (IF sg.keepAllResults THEN NFailed ELSE 0)

\* Wait returned after three tasks of which some failed and some did not.
C1_Witness ==
    /\ Returned /\ NSubmitted = 3
    /\ NFailed >= 1 /\ NFailed < 3

C3_KeepAllValues ==
    (Returned /\ sg.keepAllResults /\ ~ctxDone) =>
        /\ Len(ret.results) = NSubmitted
        /\ SeqToBag(ret.results) = SeqToBag(ValsOf(posted, TRUE))
        /\ Len(ret.errors) = NFailed
        /\ ret.errNil <=> NFailed = 0

\* Three tasks, two failed, keepAllResults true: a failing task's value is
\* among the three results.
C3_Witness ==
    /\ Returned /\ sg.keepAllResults /\ ~ctxDone
    /\ NSubmitted = 3 /\ NFailed = 2
    /\ \E i \in 1..3 : ret.results[i] = 2
    /\ Len(ret.results) = 3

\* C4: with a limit that is never changed (SpecFixed), at most that many units
\* are inside their task body at once; with limit 1, at most one.
C4_AtMostLimitInBody ==
    sg.initOnce => Cardinality(InBody) <= sg.semaphore.size

\* The limit is reached: as many units in their body as the limit allows, and
\* another one queued behind them.
C4_Witness ==
    /\ sg.initOnce
    /\ Cardinality(InBody) = sg.semaphore.size
    /\ sg.semaphore.waiters # <<>>

\* C5: Wait on a coordinator on which Run was never called, built with New
\* or a zero value, does not fault, does not block forever (while it has not
\* returned, Wait or the gatherer can take a step), and returns an empty
\* result set and a nil error.
C5_WaitWithoutRunReturns ==
    (Submitted = {} /\ (waitPc # "idle" \/ fault = "Wait: nil pointer dereference")) =>
        /\ fault = "none"
        /\ Returned => (ret.results = <<>> /\ ret.errNil)
        /\ ~Returned => ENABLED (WaitJoined \/ WaitReturn \/ GathererExit)

\* The waiters a resize to newSize can serve: as many as there are free permits.
Served(s, newSize) ==
    LET free == IF newSize > s.cur THEN newSize - s.cur ELSE 0
    IN IF Len(s.waiters) < free THEN Len(s.waiters) ELSE free

\* C6: a SetParallel that raises the limit while units are queued hands the
\* free permits to the units at the head of the queue in that very step: they
\* leave the queue holding a permit and are in their task body, with no
\* Release in between, as many as the new limit allows.
C6_GrowthServesWaiters ==
    [][(/\ sg.initOnce
        /\ sg'.semaphore.size > sg.semaphore.size
        /\ sg.semaphore.waiters # <<>>) =>
           LET old == sg.semaphore
               k == Served(old, sg'.semaphore.size)
           IN /\ sg'.semaphore.cur = old.cur + k
              /\ sg'.semaphore.waiters = SubSeq(old.waiters, k + 1, Len(old.waiters))
              /\ \A i \in 1..k : old.waiters[i] \in InBody'
              /\ \A u \in Units : pc'[u] = pc[u]
              /\ old.cur < sg'.semaphore.size => k >= 1]_vars

\* A queued unit was served although no unit has released a permit and no
\* context was cancelled: only a resize can have served it.
C6_Witness ==
    /\ ~ctxDone
    /\ \A u \in Units : pc[u] \in {"idle", "acquire", "waiting", "running"}
    /\ \E u \in Units : pc[u] = "waiting" /\ ~Queued(u)

\* C7: a SetParallel that lowers the limit under the number of permits
\* checked out does not fault and takes no permit from a unit that holds one;
\* and any step that hands out permits leaves no more checked out than the
\* limit then in force: nothing is acquired until the holders have dropped
\* below the limit, and under a limit of 1 one unit runs at a time.
C7_ShrinkDelaysAcquisitions ==
    [][sg.initOnce =>
          /\ sg'.semaphore.cur > sg.semaphore.cur =>
                sg'.semaphore.cur <= sg'.semaphore.size
          /\ sg'.semaphore.size < sg.semaphore.size =>
                /\ fault' = "none"
                /\ sg'.semaphore.cur = sg.semaphore.cur
                /\ \A u \in Holding : u \in Holding' /\ pc'[u] = pc[u]]_vars

\* The limit was lowered under the number of permits checked out while a
\* unit is queued.
C7_Witness ==
    /\ sg.initOnce
    /\ sg.semaphore.cur > sg.semaphore.size
    /\ sg.semaphore.waiters # <<>>

\* Number of outcomes sent that carry the cancellation error.
NCanceled == Len(SelectSeq(posted, LAMBDA r : r.err = Canceled))

\* C8: the context is cancelled before the first Run (SpecCanceled), more
\* tasks are submitted than the limit, no task fails by itself and some
\* Acquire failed: the units whose Acquire failed add no value to the results,
\* so Wait returns fewer than N results, and the first recorded error is the
\* cancellation error.
C8_CanceledUnitsAddNoValue ==
    (/\ Returned
     /\ NSubmitted > sg.semaphore.size
     /\ NCanceled > 0
     /\ \A i \in 1..Len(posted) : posted[i].err # TaskErr) =>
        /\ Len(ret.results) <= NSubmitted - NCanceled
        /\ Len(ret.results) < NSubmitted
        /\ ~ret.errNil /\ ret.errors[1] = Canceled

\* C9: Wait returns a nil error exactly when the collector recorded no error,
\* which is when no outcome carried one; otherwise the aggregate it returns
\* holds every error sent, task errors and cancellation errors, in the order
\* the channel delivered them to the collector.
C9_NilIffNoErrors ==
    Returned =>
        /\ ret.errNil <=> Len(sg.errors.Errors) = 0
        /\ ret.errNil <=> NFailed = 0
        /\ ~ret.errNil => ret.errors = ErrsOf(posted)

\* Wait returned an aggregate with a task error followed by a cancellation error.
C9_Witness ==
    /\ Returned /\ ~ret.errNil
    /\ Len(ret.errors) >= 2
    /\ ret.errors[1] = TaskErr /\ ret.errors[2] = Canceled

\* C10: e.Is(target) answers true exactly when target is an aggregate of the
\* same length whose error at every index matches e's error at that index
\* under errors.Is (the target's error being the one asked about); aggregates
\* of different lengths, and targets that are no aggregate, never match.
C10_IsStructuralEquality ==
    isRes # "none" =>
        /\ isRes = "true" <=>
              /\ isT.agg
              /\ Len(isE.Errors) = Len(isT.ptr.Errors)
              /\ \A i \in 1..Len(isE.Errors) : ErrorsIs(isT.ptr.Errors[i], isE.Errors[i])
        /\ (isT.agg /\ Len(isE.Errors) # Len(isT.ptr.Errors)) => isRes = "false"
        /\ ~isT.agg => isRes = "false"

\* Is answered true for two aggregates of two errors each that are not the
\* same sequence: two cantEven instances match, a wrapper matches what it wraps.
C10_Witness ==
    /\ isRes = "true"
    /\ Len(isE.Errors) = 2
    /\ isE.Errors # isT.ptr.Errors

\* C11: HasErrors answers false on the nil aggregate and on an aggregate no
\* error was added to, without a fault; an AddError call that returns leaves
\* an aggregate on which HasErrors is true, after any number of calls; in
\* every state HasErrors is true exactly when the error sequence is not empty.
C11_HasErrorsIffNonEmpty ==
    /\ [](/\ HasErrors(isE) <=> Len(isE.Errors) > 0
          /\ isRes # "none" => (isRes = "true" <=> Len(isE.Errors) > 0)
          /\ (isE \in {NilAggregate, EmptyAggregate, MadeAggregate} /\ isRes # "none") =>
                isRes = "false")
    /\ [][/\ (isRes = "none" /\ isRes' # "none") => fault' = "none"
          /\ isE' # isE =>
                /\ Len(isE'.Errors) = Len(isE.Errors) + 1
                /\ HasErrors(isE')]_vars

\* HasErrors answered true on an aggregate that AddError was called on as
\* often as the bound allows.
C11_Witness ==
    /\ isRes = "true"
    /\ Len(isE.Errors) = MaxAdds

\* C12: an outcome of a unit whose Acquire was aborted by the cancellation
\* adds its error to the aggregate and never a value to the results, whatever
\* keepAllResults says: when Wait has returned, the aggregate holds one
\* cancellation error per such unit, no result is the zero value such an
\* outcome carries, and with keepAllResults set the results number exactly
\* the units that ran their task.
C12_CanceledNeverAppended ==
    Returned =>
        /\ Len(SelectSeq(sg.errors.Errors, LAMBDA e : e = Canceled)) = NCanceled
        /\ \A i \in 1..Len(ret.results) : ret.results[i] # ZeroVal
        /\ sg.keepAllResults => Len(ret.results) = Len(posted) - NCanceled

\* C13: under a fair scheduler (SpecLive), with task bodies that return and a
\* limit of at least 1 throughout, a call of Wait returns in the end, however
\* many tasks were submitted, more than the channel and the limit hold
\* together as well: a unit blocked on the full channel is unblocked by the
\* gatherer, and the join never deadlocks.
C13_WaitEventuallyReturns ==
    (waitPc = "wgwait") ~> Returned

\* The units that wait at the send of their task's outcome with the channel full.
BlockedPosting == {u \in Units : pc[u] = "post" /\ Len(sg.resultChan) = ChanCap}

\* C14: a unit whose Acquire succeeded runs the task, releases the permit and
\* then posts: at the step that sends its outcome the unit's permit is back
\* already (the permits checked out are all other units'), and a unit blocked
\* on a full channel holds none.
C14_ReleaseBeforePost ==
    /\ [](sg.initOnce => sg.semaphore.cur <= Cardinality(Holding \ BlockedPosting))
    /\ [][\A u \in Units :
             (pc[u] = "post" /\ pc'[u] # "post") =>
                 sg.semaphore.cur <= Cardinality(Holding \ {u})]_vars

\* The sum of the permits held: every unit between Acquire and Release holds one.
Held == Cardinality(Holding)

\* The larger of two numbers.
Max(a, b) == IF a >= b THEN a ELSE b

\* C15 as stated: in every reachable state, under any interleaving of Acquire,
\* Release and SetSize, growing or shrinking, the permits held are no more
\* than the size then in force.
C15_HeldNeverExceedsSize ==
    sg.initOnce => Held <= sg.semaphore.size

\* C15 as amended: the permits held exceed the size only because SetSize
\* lowered the size under them; no step raises the permits held above the
\* size in force after it, so while they exceed it they can only fall.
C15_HeldExceedsSizeOnlyByShrink ==
    [][(/\ sg.initOnce
        /\ pc' # pc \/ sg'.semaphore.size # sg.semaphore.size) =>
          LET after == Held'
          IN after > sg'.semaphore.size =>
                LET before == Held
                IN /\ after <= before
                   /\ before <= sg.semaphore.size =>
                         (sg'.semaphore.size < sg.semaphore.size /\ pc' = pc)]_vars

\* A shrink left as many permits held as the largest limit allows, above the
\* size now in force, and one of the holders has gone on to its send.
C15_Witness ==
    /\ sg.initOnce
    /\ Held > sg.semaphore.size
    /\ Held = MaxParallel
    /\ \E u \in Units : pc[u] = "post"

\* The units that have sent their outcome.
Sent == {u \in Units : pc[u] \in {"release", "wgdone", "done"}}

\* C16: a unit's Acquire fails only on a cancelled context and only while
\* the unit holds no permit; the unit then sends one outcome, the zero value
\* with the cancellation error, touches the semaphore no more (no Release)
\* and ends without having been in its task body.  A unit whose Acquire
\* succeeded stays in its task body until the task returns and then sends
\* the outcome, cancelled context or not: it is never put back in the queue
\* and never fails.  Every unit past its send has sent exactly one outcome.
C16_FailedAcquireOnlyPosts ==
    /\ [](Len(posted) = Cardinality(Sent))
    /\ [][pc' # pc =>
             \A u \in Units :
                pc'[u] # pc[u] =>
                   /\ pc'[u] = "failed" =>
                         /\ ctxDone
                         /\ pc[u] \in {"acquire", "waiting"}
                         /\ u \notin Holding
                   /\ pc[u] = "failed" =>
                         /\ pc'[u] = "wgdone"
                         /\ posted' = Append(posted, [val |-> ZeroVal, err |-> Canceled])
                         /\ sg'.semaphore = sg.semaphore
                   /\ pc[u] = "wgdone" =>
                         /\ pc'[u] = "done"
                         /\ posted' = posted
                         /\ sg'.semaphore = sg.semaphore
                   /\ Running(u) => pc'[u] = "post"
                   /\ pc[u] = "post" =>
                         /\ pc'[u] = "release"
                         /\ Len(posted') = Len(posted) + 1
                         /\ posted'[Len(posted')] \in TaskOutcomes]_vars
    /\ [][sg'.semaphore.waiters # sg.semaphore.waiters =>
             \A u \in Units : Queued(u)' => (Queued(u) \/ pc[u] = "acquire")]_vars

\* After the cancellation outcome of one unit was sent, a task of another
\* unit returned and its outcome was sent, while a third unit is in its body
\* under the cancelled context.
C16_Witness ==
    /\ ctxDone
    /\ \E i, j \in 1..Len(posted) :
          i < j /\ posted[i].err = Canceled /\ posted[j].err = Nil
    /\ \E u \in Units : pc[u] = "running"

\* Some unit's caller is in this step the one that calls Run.
RunStep == \E u \in Units : pc[u] = "idle" /\ pc'[u] # "idle"

\* C17: initialisation takes effect once.  With a caller that never calls
\* SetParallel (SpecFixed), the limit of an initialised coordinator never
\* changes, so after New(p) it stays p whatever number of Run calls follow;
\* a Run call on an initialised coordinator adds one to the join counter and
\* leaves the semaphore, the channel and what it buffers, the done signal,
\* the results and the error aggregate as they are; a Run call on the zero
\* value makes them, with the limit GOMAXPROCS.
C17_InitOnce ==
    [][/\ sg.initOnce =>
             /\ sg'.initOnce
             /\ sg'.semaphore.size = sg.semaphore.size
       /\ (RunStep /\ sg.initOnce) =>
             /\ sg'.waitGroup = sg.waitGroup + 1
             /\ sg'.semaphore = sg.semaphore
             /\ sg'.resultChan = sg.resultChan
             /\ sg'.chanClosed = sg.chanClosed
             /\ sg'.doneChan = sg.doneChan
             /\ sg'.results = sg.results
             /\ sg'.errors = sg.errors
       /\ (RunStep /\ ~sg.initOnce) =>
             /\ sg'.initOnce
             /\ sg'.semaphore = NewWeighted(GoMaxProcs)
             /\ sg'.waitGroup = 1]_vars

\* After New(1) a Run call was made while the outcomes of earlier units were
\* folded, buffered and on their way: the limit is still 1, not GOMAXPROCS.
C17_Witness ==
    /\ sg.semaphore.size = 1 /\ GoMaxProcs # 1
    /\ pc[MaxTasks] = "acquire"
    /\ sg.results # <<>> /\ sg.errors.Errors # <<>>
    /\ sg.resultChan # <<>>
    /\ sg.waitGroup >= 2

\* The units whose caller has passed sg.gather() in Run.
PastGather == {u \in Units : pc[u] \notin {"idle", "run:gather"}}

\* C18: with Run called from several goroutines at once (SpecConcurrent), in
\* any interleaving of the statements of the Run calls, exactly one gatherer
\* is started, by the first caller to pass gather(), and none before; and a
\* step that changes the results or the error aggregate of an initialised
\* coordinator is a step of that gatherer: it takes the oldest outcome off
\* the channel and moves neither a caller nor a unit.
C18_OneGatherer ==
    /\ [](/\ sg.gatherers <= 1
          /\ sg.gatherOnce <=> sg.gatherers = 1
          /\ PastGather # {} <=> sg.gatherers = 1)
    /\ [][(sg.initOnce /\ (sg'.results # sg.results \/ sg'.errors # sg.errors)) =>
             /\ sg.gatherers = 1
             /\ sg.resultChan # <<>>
             /\ sg'.resultChan = Tail(sg.resultChan)
             /\ pc' = pc /\ waitPc' = waitPc]_vars

\* Two callers are inside Run at the same time, one past gather() and one
\* about to call it, a third has spawned its unit, and the one gatherer has
\* folded an outcome already.
C18_Witness ==
    /\ sg.gatherers = 1
    /\ \E u, v \in Units : pc[u] = "run:gather" /\ pc[v] = "run:add"
    /\ sg.results # <<>>

\* The order of Wait's steps: the call, the join and close, the return.
WaitOrder ==
    {<<"idle", "wgwait">>, <<"wgwait", "recvdone">>, <<"recvdone", "returned">>}

\* C19: Wait's steps happen in order.  The channel is closed only when every
\* unit submitted before Wait was called has sent its outcome and ended (the
\* join counter is 0), so no unit ever sends on the closed channel; the done
\* signal comes only on the closed and drained channel; Wait returns only
\* after the done signal, handing back what the gatherer folded; and after
\* Wait has returned the results and the error aggregate change no more.
C19_ShutdownInOrder ==
    /\ [](/\ fault # "send on closed channel"
          /\ sg.chanClosed =>
                /\ waitPc \in {"recvdone", "returned"}
                /\ sg.waitGroup = 0
                /\ \A u \in Submitted : pc[u] = "done"
                /\ Len(posted) = NSubmitted
          /\ sg.doneChan => (sg.chanClosed /\ sg.resultChan = <<>>)
          /\ Returned =>
                /\ sg.doneChan
                /\ ret.results = sg.results
                /\ ~ret.errNil => ret.errors = sg.errors.Errors)
    /\ [][/\ waitPc' # waitPc => <<waitPc, waitPc'>> \in WaitOrder
          /\ sg.chanClosed => sg'.chanClosed
          /\ sg.doneChan => (sg'.doneChan /\ sg'.results = sg.results /\ sg'.errors = sg.errors)
          /\ Returned => (sg'.results = sg.results /\ sg'.errors = sg.errors /\ ret' = ret)]_vars

\* Wait has closed the channel with outcomes still buffered, a cancellation
\* outcome among those sent, and waits for the gatherer's done signal.
C19_Witness ==
    /\ waitPc = "recvdone" /\ sg.chanClosed /\ ~sg.doneChan
    /\ Len(sg.resultChan) = ChanCap
    /\ NSubmitted = MaxTasks
    /\ NCanceled >= 1

\* C20: every permit a unit acquired is given back exactly once, whether the
\* task returned a value or an error: the semaphore's count of permits
\* checked out is at all times the number of units between their Acquire and
\* their Release.  The Release comes before the unit's Done: a Release step
\* leaves the join counter alone, a Done step leaves the semaphore alone, and
\* no more permits are out than units are counted.  So when Wait has returned
\* no permit is out and no unit waits in the semaphore's queue.
C20_PermitsReleasedOnce ==
    /\ [](sg.initOnce =>
            /\ sg.semaphore.cur = Held
            /\ sg.semaphore.cur <= sg.waitGroup
            /\ Returned => (sg.semaphore.cur = 0 /\ sg.semaphore.waiters = <<>>))
    /\ [][\A u \in Units :
             /\ (pc[u] = "release" /\ pc'[u] # "release") =>
                   /\ pc'[u] = "wgdone"
                   /\ sg'.waitGroup = sg.waitGroup
                   /\ sg'.semaphore.cur =
                         sg.semaphore.cur - 1
                           + (Len(sg.semaphore.waiters) - Len(sg'.semaphore.waiters))
             /\ (pc[u] = "wgdone" /\ pc'[u] # "wgdone") =>
                   /\ sg'.waitGroup = sg.waitGroup - 1
                   /\ sg'.semaphore = sg.semaphore]_vars

\* Wait returned after more tasks than the limit ran, none cancelled, some
\* returning a value and some an error: every permit is back.
C20_Witness ==
    /\ Returned
    /\ sg.semaphore.cur = 0
    /\ NSubmitted > sg.semaphore.size
    /\ NCanceled = 0
    /\ \E i, j \in 1..Len(posted) : posted[i].err = Nil /\ posted[j].err = TaskErr

=============================================================================
